---------------------------- MODULE Spec2Model ----------------------------
(***************************************************************************)
(* Verification model of the indoor wayfinding core:                       *)
(*   - the shortest-path router        (lib/dijkstra.ts, dijkstra)          *)
(*   - the direction compiler          (lib/directions.ts)                  *)
(*   - the position-fusion engine      (lib/useIndoorPosition.ts)           *)
(* Each component is a state machine of its own (SpecRouter, SpecDir,       *)
(* Spec); the variables of the components that a specification does not     *)
(* exercise stay at their idle values.                                      *)
(***************************************************************************)
EXTENDS Integers, Sequences, FiniteSets, TLC

VARIABLES
    \* ---- router (one call of dijkstra) ----
    edges,              \* the edge list handed to the call (a set of records)
    startId, endId,     \* the two ids handed to the call
    accessibilityMode,  \* the avoid-stairs flag
    dist, prev, visited,\* the three tables of the search
    rpc,                \* position in dijkstra: "loop", "check", "rebuild", "done", "idle"
    rcur,               \* `current` of the reconstruction loop
    rpath,              \* `path` under reconstruction
    result,             \* the returned value
    \* ---- direction compiler (one call of generateDirections) ----
    pathNodeIds,        \* the ids handed to the call
    scaleFactor,        \* coordinate units per meter
    pathNodes,          \* the ids resolved through the node table, unknown ids dropped
    steps,              \* the step list under construction / returned
    gi,                 \* the loop index i (0-based, as in the source)
    gpc,                \* position in generateDirections: "entry", "loop", "done", "idle"
    \* ---- position-fusion engine (one mounted useIndoorPosition hook) ----
    routePoints,            \* the `routePoints` option
    segmentDistances,       \* the `segmentDistances` option (millimeters)
    active,                 \* the `active` option: whether tracking is on
    position,               \* state: interpolated position (thousandths of a map unit)
    heading,                \* state: smoothed compass heading (millidegrees) or NoHeading
    routeHeading,           \* state: heading of the current segment or NoHeading
    currentSegment,         \* state: current segment index
    distanceWalked,         \* state: distance walked (millimeters)
    sensorsAvailable,       \* state: a valid motion sample has arrived
    stepCount,              \* state: step count
    confidence,             \* state: confidence (millionths)
    source,                 \* state: how the position was determined
    isOffRoute,             \* state: off-route flag
    adaptiveStepLength,     \* state: adaptive step length (millimeters)
    lastAccelRef,           \* ref: previous smoothed reading (1/1200 m/s^2)
    lastStepTimeRef,        \* ref: time of the last detected step
    distanceAlongRouteRef,  \* ref: distance along the route (millimeters)
    currentSegmentRef,      \* ref: current segment index
    accelBufferRef,         \* ref: recent acceleration deltas (1/100 m/s^2)
    compassBufferRef,       \* ref: recent compass readings (degrees)
    confidenceRef,          \* ref: confidence (millionths)
    lastConfidenceTickRef,  \* ref: time of the last confidence tick
    stepTimesRef,           \* ref: recent inter-step intervals (ms)
    cumulativeDistances,    \* ref: cumulative distance at each route node
    now,                    \* Date.now() (ms)
    confidenceTimer,        \* due time of the confidence interval, or NoTimer
    simTimeout,             \* due time of the simulation grace timeout, or NoTimer
    simIntervals,           \* live simulation intervals: captured route points and due time
    deviationCalls,         \* onRouteDeviation invocations since isOffRoute was last set false
    advanceCalls,           \* arguments of the onSegmentAdvance invocations of the last handler
    threw,                  \* the last handler ended in an exception
    disturbances,           \* events besides walking so far: long wait, compass reading, deactivation, position fix, route change
    activations,            \* activations so far
    graceStart,             \* start of the running grace delay while no sample has arrived since tracking was switched on, or NoTimer
    sampleSinceActive,      \* a valid motion sample has arrived since tracking was last switched on
    positionSetter          \* the operation whose setPosition call came last, by its source tag

routerVars == <<edges, startId, endId, accessibilityMode, dist, prev, visited,
                rpc, rcur, rpath, result>>

dirVars == <<pathNodeIds, scaleFactor, pathNodes, steps, gi, gpc>>

engVars == <<routePoints, segmentDistances, active, position, heading,
            routeHeading, currentSegment, distanceWalked, sensorsAvailable,
            stepCount, confidence, source, isOffRoute, adaptiveStepLength,
            lastAccelRef, lastStepTimeRef, distanceAlongRouteRef,
            currentSegmentRef, accelBufferRef, compassBufferRef,
            confidenceRef, lastConfidenceTickRef, stepTimesRef,
            cumulativeDistances, now, confidenceTimer, simTimeout,
            simIntervals, deviationCalls, advanceCalls, threw, disturbances,
            activations, graceStart, sampleSinceActive, positionSetter>>

vars == <<routerVars, dirVars, engVars>>

(***************************************************************************)
(*                       SHORTEST-PATH ROUTER                              *)
(***************************************************************************)

\* The node list of the call, in array order (the order decides ties).
NodeList == <<"A", "B", "C", "D">>

NodeIds == {NodeList[i] : i \in 1..Len(NodeList)}

\* Edge weights the inputs draw from: 3 > 1 + 1, so fewer hops is not always shorter.
Weights == {1, 3}

\* Largest number of edges of an input graph.
MaxEdges == 3

\* null (no node / no result)
Null == "null"

\* undefined: what prev[id] yields for an id without an entry.
Undefined == "undefined"

\* An id that is not in the node list.
UnknownNodeId == "X"

\* Ids a call may be handed.
AnyIds == NodeIds \cup {UnknownNodeId}

\* Largest number of edges of an input graph of a call with any ids.
MaxEdgesAnyIds == 2

\* The entries of `path` that are recorded while the reconstruction loop runs; a
\* path that grows beyond them keeps growing unrecorded.
MaxPathRecord == 6

\* Infinity of the dist table; compared only through Lt.
Infinity == -1

\* dist[id] for an id without an entry (undefined): neither Infinity nor a distance.
NoDist == -2

Lt(a, b) == IF a = Infinity THEN FALSE ELSE IF b = Infinity THEN TRUE ELSE a < b

\* Every edge record an input may hold: from precedes to in array order (the
\* adjacency build adds both directions, so the orientation is immaterial).
EdgeUniverse ==
    {[from |-> NodeList[i], to |-> NodeList[j], weight |-> w, stairs |-> s] :
        i \in 1..Len(NodeList), j \in 1..Len(NodeList), w \in Weights, s \in BOOLEAN}
    \ {e \in [from : NodeIds, to : NodeIds, weight : Weights, stairs : BOOLEAN] :
        \E i, j \in 1..Len(NodeList) : NodeList[i] = e.from /\ NodeList[j] = e.to /\ i >= j}

RECURSIVE SubsetsUpTo(_, _)
SubsetsUpTo(S, k) ==
    IF k = 0 THEN {{}}
    ELSE LET P == SubsetsUpTo(S, k - 1)
         IN  P \cup {p \cup {e} : p \in P, e \in S}

\* const activeEdges = accessibilityMode ? edges.filter((e) => !e.stairs) : edges;
ActiveEdgesNoFilter(es, mode) == es

ActiveEdges(es, mode) == IF mode THEN {e \in es : ~e.stairs} ELSE es

\* An adjacency build that adds each edge in its from -> to direction only.
AdjOneWay(es, id) ==
    {[to |-> e.to, weight |-> e.weight] : e \in {x \in es : x.from = id}}

\* adj[id]: the {to, weight} entries of node id, both directions of every active edge.
Adj(es, id) ==
    {[to |-> e.to, weight |-> e.weight] : e \in {x \in es : x.from = id}}
    \cup {[to |-> e.from, weight |-> e.weight] : e \in {x \in es : x.to = id}}

\* dist[node.id] = Infinity for every node, then dist[startId] = 0.
InitDistNoStart(s) == [n \in NodeIds |-> Infinity]

InitDist(s) == [n \in NodeIds \cup {s} |-> IF n = s THEN 0 ELSE Infinity]

\* The selection scan: the first node in array order that is unvisited and whose
\* dist is strictly below every earlier candidate's; null when none is finite.
RECURSIVE ScanMin(_, _, _, _, _)
ScanMin(d, vis, i, minDist, cur) ==
    IF i > Len(NodeList) THEN cur
    ELSE LET id == NodeList[i]
         IN  IF id \notin vis /\ Lt(d[id], minDist)
             THEN ScanMin(d, vis, i + 1, d[id], id)
             ELSE ScanMin(d, vis, i + 1, minDist, cur)

\* A scan that takes the first unvisited reached node, not the nearest.
RECURSIVE ScanFirst(_, _, _)
ScanFirst(d, vis, i) ==
    IF i > Len(NodeList) THEN Null
    ELSE IF NodeList[i] \notin vis /\ d[NodeList[i]] # Infinity THEN NodeList[i]
    ELSE ScanFirst(d, vis, i + 1)

SelectCurrentFirst(d, vis) == ScanFirst(d, vis, 1)

SelectCurrent(d, vis) == ScanMin(d, vis, 1, Infinity, Null)

\* The relaxation of current's neighbours: newDist = dist[current] + weight replaces
\* dist[to] when strictly smaller; visited neighbours are skipped.  Several entries
\* to one neighbour leave the smallest newDist, whatever the order of the list.
Candidates(es, d, vis, c, n) ==
    {d[c] + a.weight : a \in {x \in Adj(es, c) : x.to = n /\ x.to \notin vis}}

Min(S) == CHOOSE x \in S : \A y \in S : x <= y

Improved(es, d, vis, c, n) ==
    LET cs == Candidates(es, d, vis, c, n)
    IN  cs # {} /\ Lt(Min(cs), d[n])

RelaxDist(es, d, vis, c) ==
    [n \in NodeIds |-> IF Improved(es, d, vis, c, n)
                       THEN Min(Candidates(es, d, vis, c, n)) ELSE d[n]]

RelaxPrev(es, d, p, vis, c) ==
    [n \in NodeIds |-> IF Improved(es, d, vis, c, n) THEN c ELSE p[n]]

\* dist[id] and prev[id] of the source, for any id.
DistAt(d, id) == IF id \in DOMAIN d THEN d[id] ELSE NoDist

PrevAt(p, id) == IF id \in DOMAIN p THEN p[id] ELSE Undefined

NullResult == [kind |-> "null", path |-> <<>>, distance |-> 0]

\* State on entry to the main loop (lines 551-575 executed).
RouterStart ==
    /\ edges \in SubsetsUpTo(EdgeUniverse, MaxEdges)
    /\ startId \in NodeIds
    /\ endId \in NodeIds
    /\ accessibilityMode \in BOOLEAN
    /\ dist = InitDist(startId)
    /\ prev = [n \in NodeIds |-> Null]
    /\ visited = {}
    /\ rpc = "loop"
    /\ rcur = Null
    /\ rpath = <<>>
    /\ result = NullResult

\* State on entry to the main loop of a call whose ids need not be node ids.
RouterStartAnyIds ==
    /\ edges \in SubsetsUpTo(EdgeUniverse, MaxEdgesAnyIds)
    /\ startId \in AnyIds
    /\ endId \in AnyIds
    /\ accessibilityMode \in BOOLEAN
    /\ dist = InitDist(startId)
    /\ prev = [n \in NodeIds |-> Null]
    /\ visited = {}
    /\ rpc = "loop"
    /\ rcur = Null
    /\ rpath = <<>>
    /\ result = NullResult

RouterIdle ==
    /\ edges = {}
    /\ startId = Null
    /\ endId = Null
    /\ accessibilityMode = FALSE
    /\ dist = <<>>
    /\ prev = <<>>
    /\ visited = {}
    /\ rpc = "idle"
    /\ rcur = Null
    /\ rpath = <<>>
    /\ result = NullResult

\* One iteration of while (true): select, break or visit and relax.
MainLoopBreak ==
    /\ rpc = "loop"
    /\ LET current == SelectCurrent(dist, visited)
       IN  current = Null \/ current = endId
    /\ rpc' = "check"
    /\ UNCHANGED <<edges, startId, endId, accessibilityMode, dist, prev, visited,
                   rcur, rpath, result>>
    /\ UNCHANGED <<dirVars, engVars>>

MainLoopVisit ==
    /\ rpc = "loop"
    /\ LET current == SelectCurrent(dist, visited)
           es == ActiveEdges(edges, accessibilityMode)
           vis == visited \cup {current}
       IN  /\ current # Null
           /\ current # endId
           /\ visited' = vis
           /\ dist' = RelaxDist(es, dist, vis, current)
           /\ prev' = RelaxPrev(es, dist, prev, vis, current)
    /\ UNCHANGED <<edges, startId, endId, accessibilityMode, rpc, rcur, rpath, result>>
    /\ UNCHANGED <<dirVars, engVars>>

\* if (dist[endId] === Infinity) return null;
ReturnNull ==
    /\ rpc = "check"
    /\ DistAt(dist, endId) = Infinity
    /\ result' = NullResult
    /\ rpc' = "done"
    /\ UNCHANGED <<edges, startId, endId, accessibilityMode, dist, prev, visited,
                   rcur, rpath>>
    /\ UNCHANGED <<dirVars, engVars>>

StartRebuild ==
    /\ rpc = "check"
    /\ DistAt(dist, endId) # Infinity
    /\ rpath' = <<>>
    /\ rcur' = endId
    /\ rpc' = "rebuild"
    /\ UNCHANGED <<edges, startId, endId, accessibilityMode, dist, prev, visited, result>>
    /\ UNCHANGED <<dirVars, engVars>>

\* while (current !== null) { path.unshift(current); current = prev[current]; }
RebuildStep ==
    /\ rpc = "rebuild"
    /\ rcur # Null
    /\ rpath' = IF Len(rpath) < MaxPathRecord THEN <<rcur>> \o rpath ELSE rpath
    /\ rcur' = PrevAt(prev, rcur)
    /\ UNCHANGED <<edges, startId, endId, accessibilityMode, dist, prev, visited,
                   rpc, result>>
    /\ UNCHANGED <<dirVars, engVars>>

\* return { path, distance: dist[endId] };
ReturnPath ==
    /\ rpc = "rebuild"
    /\ rcur = Null
    /\ result' = [kind |-> "found", path |-> rpath, distance |-> dist[endId]]
    /\ rpc' = "done"
    /\ UNCHANGED <<edges, startId, endId, accessibilityMode, dist, prev, visited,
                   rcur, rpath>>
    /\ UNCHANGED <<dirVars, engVars>>

RouterNext ==
    \/ MainLoopBreak
    \/ MainLoopVisit
    \/ ReturnNull
    \/ StartRebuild
    \/ RebuildStep
    \/ ReturnPath

(***************************************************************************)
(*                          DIRECTION COMPILER                             *)
(***************************************************************************)

\* Math.PI as 180 degrees, in millidegrees; angles are integers in millidegrees.
HalfTurn == 180000

\* atan(2^-i), i = 0..16, in millidegrees.
AtanTable == <<45000, 26565, 14036, 7125, 3576, 1790, 895, 448, 224, 112, 56, 28,
               14, 7, 3, 2, 1>>

\* Fixed-point scale of the arctangent iteration.
AtanScale == 65536

RECURSIVE Pow2(_)
Pow2(i) == IF i = 0 THEN 1 ELSE 2 * Pow2(i - 1)

\* The arctangent of y / x for x, y > 0 by vectoring rotations: the vector (x, y)
\* is turned onto the x-axis, and the angles turned through add up.
RECURSIVE AtanIter(_, _, _, _)
AtanIter(x, y, ang, i) ==
    IF y = 0 \/ i = Len(AtanTable) THEN ang
    ELSE IF y > 0
         THEN AtanIter(x + (y \div Pow2(i)), y - (x \div Pow2(i)), ang + AtanTable[i + 1], i + 1)
         ELSE AtanIter(x - (y \div Pow2(i)), y + (x \div Pow2(i)), ang - AtanTable[i + 1], i + 1)

Abs(v) == IF v < 0 THEN -v ELSE v

\* Math.atan2(y, x) in millidegrees, in (-180000, 180000]; atan2(0, 0) = 0.
Atan2(y, x) ==
    IF y = 0 THEN (IF x < 0 THEN HalfTurn ELSE 0)
    ELSE IF x = 0 THEN (IF y > 0 THEN HalfTurn \div 2 ELSE -(HalfTurn \div 2))
    ELSE LET base == AtanIter(Abs(x) * AtanScale, Abs(y) * AtanScale, 0, 0)
         IN  IF x > 0 THEN (IF y > 0 THEN base ELSE -base)
             ELSE (IF y > 0 THEN HalfTurn - base ELSE base - HalfTurn)

\* while (diff > 180) diff -= 360; while (diff < -180) diff += 360;
RECURSIVE NormalizeDiff(_)
NormalizeDiff(diff) ==
    IF diff > HalfTurn THEN NormalizeDiff(diff - 2 * HalfTurn)
    ELSE IF diff < -HalfTurn THEN NormalizeDiff(diff + 2 * HalfTurn)
    ELSE diff

\* angleBetween(prev, curr, next): the bearing of curr -> next minus the bearing of
\* prev -> curr, normalised to [-180, 180] degrees.
AngleBetween(p, c, n) ==
    LET angle1 == Atan2(c.y - p.y, c.x - p.x)
        angle2 == Atan2(n.y - c.y, n.x - c.x)
    IN  NormalizeDiff(angle2 - angle1)

\* Math.round(Math.sqrt(sq) / sf): the largest k with k = 0 or (2k - 1) sf <= 2 sqrt(sq).
RECURSIVE RoundSqrtDiv(_, _, _)
RoundSqrtDiv(sq, sf, k) ==
    IF (2 * k + 1) * (2 * k + 1) * sf * sf <= 4 * sq THEN RoundSqrtDiv(sq, sf, k + 1) ELSE k

\* distanceMeters(a, b, scaleFactor)
DistanceMeters(a, b, sf) ==
    RoundSqrtDiv((b.x - a.x) * (b.x - a.x) + (b.y - a.y) * (b.y - a.y), sf, 0)

\* The turn threshold of generateDirections, 30 degrees.
TurnThreshold == 30000

\* A classification with left and right exchanged.
TurnDirectionSwapped(angle) ==
    IF angle < -TurnThreshold THEN "left"
    ELSE IF angle > TurnThreshold THEN "right"
    ELSE "straight"

\* if (angle < -30) right; else if (angle > 30) left; otherwise straight.
TurnDirection(angle) ==
    IF angle < -TurnThreshold THEN "right"
    ELSE IF angle > TurnThreshold THEN "left"
    ELSE "straight"

\* The node table of the floor: node id k is the k-th point of the grid; id 0 is in
\* no table.
GridXs == {0, 30, 60, 90}

GridYs == {0, 30}

RECURSIVE SetToSeq(_)
SetToSeq(S) ==
    IF S = {} THEN <<>>
    ELSE LET m == CHOOSE a \in S : \A b \in S : a.x < b.x \/ (a.x = b.x /\ a.y <= b.y)
         IN  <<m>> \o SetToSeq(S \ {m})

NodeTable == SetToSeq({[x |-> gx, y |-> gy] : gx \in GridXs, gy \in GridYs})

UnknownId == 0

PathIds == {UnknownId} \cup (1..Len(NodeTable))

\* Scale factors the inputs draw from; the first is the default of the source.
ScaleFactors == {10, 20}

\* Largest number of ids of an input path.
MaxPathLen == 4

RECURSIVE SeqsUpTo(_, _)
SeqsUpTo(S, k) ==
    IF k = 0 THEN {<<>>}
    ELSE LET P == SeqsUpTo(S, k - 1)
         IN  P \cup {Append(p, e) : p \in P, e \in S}

\* pathNodeIds.map((id) => nodeMap.get(id)!).filter(Boolean)
RECURSIVE ResolvePath(_)
ResolvePath(ids) ==
    IF ids = <<>> THEN <<>>
    ELSE IF Head(ids) \in 1..Len(NodeTable)
         THEN <<NodeTable[Head(ids)]>> \o ResolvePath(Tail(ids))
         ELSE ResolvePath(Tail(ids))

Step(direction, distance) == [direction |-> direction, distance |-> distance]

\* State on entry to generateDirections, nodeMap and pathNodes built (lines 39-40).
DirStart ==
    /\ pathNodeIds \in SeqsUpTo(PathIds, MaxPathLen)
    /\ scaleFactor \in ScaleFactors
    /\ pathNodes = ResolvePath(pathNodeIds)
    /\ steps = <<>>
    /\ gi = 0
    /\ gpc = "entry"

DirIdle ==
    /\ pathNodeIds = <<>>
    /\ scaleFactor = 0
    /\ pathNodes = <<>>
    /\ steps = <<>>
    /\ gi = 0
    /\ gpc = "idle"

\* A degenerate path answered with a start and an arrival step.
DirReturnStartArrive ==
    /\ gpc = "entry"
    /\ Len(pathNodes) < 2
    /\ steps' = <<Step("start", 0), Step("arrive", 0)>>
    /\ gpc' = "done"
    /\ UNCHANGED <<pathNodeIds, scaleFactor, pathNodes, gi>>
    /\ UNCHANGED <<routerVars, engVars>>

\* if (pathNodes.length < 2) return [];
DirReturnEmpty ==
    /\ gpc = "entry"
    /\ Len(pathNodes) < 2
    /\ steps' = <<>>
    /\ gpc' = "done"
    /\ UNCHANGED <<pathNodeIds, scaleFactor, pathNodes, gi>>
    /\ UNCHANGED <<routerVars, engVars>>

\* The start step, and the loop entered with i = 1.
DirPushStart ==
    /\ gpc = "entry"
    /\ Len(pathNodes) >= 2
    /\ steps' = <<Step("start", 0)>>
    /\ gi' = 1
    /\ gpc' = "loop"
    /\ UNCHANGED <<pathNodeIds, scaleFactor, pathNodes>>
    /\ UNCHANGED <<routerVars, engVars>>

\* pathNodes[i] of the source (0-based).
PathNode(i) == pathNodes[i + 1]

\* The direction the loop body computes at index i (an interior node).
DirectionAt(i) == TurnDirection(AngleBetween(PathNode(i - 1), PathNode(i), PathNode(i + 1)))

\* A loop iteration at a turning point: one step is pushed.
DirLoopTurn ==
    /\ gpc = "loop"
    /\ gi < Len(pathNodes)
    /\ gi < Len(pathNodes) - 1
    /\ DirectionAt(gi) # "straight"
    /\ steps' = Append(steps, Step(DirectionAt(gi),
                                   DistanceMeters(PathNode(gi), PathNode(gi + 1), scaleFactor)))
    /\ gi' = gi + 1
    /\ UNCHANGED <<pathNodeIds, scaleFactor, pathNodes, gpc>>
    /\ UNCHANGED <<routerVars, engVars>>

\* A loop iteration that pushes nothing: the last node, or a straight interior node.
DirLoopMerge ==
    /\ gpc = "loop"
    /\ gi < Len(pathNodes)
    /\ (gi < Len(pathNodes) - 1 => DirectionAt(gi) = "straight")
    /\ gi' = gi + 1
    /\ UNCHANGED <<pathNodeIds, scaleFactor, pathNodes, steps, gpc>>
    /\ UNCHANGED <<routerVars, engVars>>

\* After the loop with only the start step: the straight step over the distance
\* from the first to the last node, then the arrival step.
DirArriveDirect ==
    /\ gpc = "loop"
    /\ gi >= Len(pathNodes)
    /\ Len(steps) = 1
    /\ steps' = steps \o
         <<Step("straight", DistanceMeters(PathNode(0), PathNode(Len(pathNodes) - 1), scaleFactor)),
           Step("arrive", 0)>>
    /\ gpc' = "done"
    /\ UNCHANGED <<pathNodeIds, scaleFactor, pathNodes, gi>>
    /\ UNCHANGED <<routerVars, engVars>>

\* An arrival that adds the straight step after turns as well.
DirArriveAlwaysStraight ==
    /\ gpc = "loop"
    /\ gi >= Len(pathNodes)
    /\ Len(steps) # 1
    /\ steps' = steps \o
         <<Step("straight", DistanceMeters(PathNode(0), PathNode(Len(pathNodes) - 1), scaleFactor)),
           Step("arrive", 0)>>
    /\ gpc' = "done"
    /\ UNCHANGED <<pathNodeIds, scaleFactor, pathNodes, gi>>
    /\ UNCHANGED <<routerVars, engVars>>

\* After the loop with turns emitted: the arrival step alone.
DirArriveAfterTurns ==
    /\ gpc = "loop"
    /\ gi >= Len(pathNodes)
    /\ Len(steps) # 1
    /\ steps' = Append(steps, Step("arrive", 0))
    /\ gpc' = "done"
    /\ UNCHANGED <<pathNodeIds, scaleFactor, pathNodes, gi>>
    /\ UNCHANGED <<routerVars, engVars>>

DirNext ==
    \/ DirReturnEmpty
    \/ DirPushStart
    \/ DirLoopTurn
    \/ DirLoopMerge
    \/ DirArriveDirect
    \/ DirArriveAfterTurns

\* The route points the navigation view hands to the engine: one per route id, an
\* id in no node table becoming the origin.
ViewRoutePoints(ids) ==
    [k \in 1..Len(ids) |->
        IF ids[k] \in 1..Len(NodeTable) THEN NodeTable[ids[k]] ELSE [x |-> 0, y |-> 0]]

\* The segment distances the navigation view hands to the engine:
\* routeSteps.map((s) => s.distance).
ViewSegmentDistances(routeSteps) == [k \in 1..Len(routeSteps) |-> routeSteps[k].distance]

(***************************************************************************)
(*                        POSITION-FUSION ENGINE                           *)
(*  One mounted useIndoorPosition hook.  Numbers are integers in fixed     *)
(*  point: distances in millimeters, confidence in millionths, time in     *)
(*  milliseconds, angles in millidegrees, positions in thousandths of a    *)
(*  map unit, acceleration deltas in 1/100 m/s^2.                          *)
(***************************************************************************)

\* null of heading / routeHeading.
NoHeading == -1

\* A timer that is not set (never set, cleared, or a timeout that has fired).
NoTimer == -1

\* Date.now() when the hook is created; lastStepTimeRef starts at 0, far before it.
EpochStart == 1000000

COMPASS_BUFFER_SIZE == 8

\* 0.008 per meter, as millionths per millimeter.
CONFIDENCE_DECAY_PER_METER == 8

\* 0.002 per second, as millionths per millisecond.
CONFIDENCE_DECAY_PER_SECOND == 2

MIN_CONFIDENCE == 150000

ROUTE_DEVIATION_TOLERANCE_M == 3000

\* The stepLength option at its default, 0.65 m.
stepLength == 650

\* The scale in which smoothed readings are kept: a rolling average of up to 4
\* readings in 1/100 m/s^2 is a whole number of 1/1200 m/s^2.
AccelScale == 12

\* stepThresholdRef, 0.8 m/s^2.
stepThreshold == 80 * AccelScale

AccelBufferSize == 4

StepTimesSize == 10

\* Debounce of step detection (ms).
StepDebounce == 250

\* Initial and reset confidence, 1.0.
FullConfidence == 1000000

\* Confidence after recalibrateToNode, 0.95.
NodeConfidence == 950000

\* Confidence after setManualPosition, 0.9.
TapConfidence == 900000

\* Bounds of the confidence of a beacon fix, 0.3 and 0.98, and its loss per
\* millimeter of accuracy (0.05 per meter).
BeaconConfidenceMin == 300000

BeaconConfidenceMax == 980000

BeaconConfidenceLoss == 50

\* The simulation: 0.3 m every 800 ms, after a grace delay of 3000 ms.
SimStep == 300

SimPeriod == 800

SimGrace == 3000

\* Period of the confidence timer (ms).
ConfidencePeriod == 1000

\* Cadence at which a step has the configured length (ms per step).
NormalInterval == 500

Pt(px, py) == [x |-> px, y |-> py]

\* array[i] of the source (0-based) and whether it is defined.
At(seq, i) == seq[i + 1]

Has(seq, i) == i >= 0 /\ i < Len(seq)

Min2(a, b) == IF a < b THEN a ELSE b

Max2(a, b) == IF a > b THEN a ELSE b

RECURSIVE Sum(_)
Sum(seq) == IF seq = <<>> THEN 0 ELSE Head(seq) + Sum(Tail(seq))

\* A route point as a position (thousandths of a map unit).
AsPosition(p) == [x |-> 1000 * p.x, y |-> 1000 * p.y]

\* ---- inputs -------------------------------------------------------------

\* Routes handed to the hook: route points (10 map units per meter) with one
\* segment distance per pair of consecutive points, the documented shape of the
\* options.  RouteA and RouteB are proper routes over different points, RouteC has
\* a single point, RouteD none.
RouteA == [points |-> <<Pt(0, 0), Pt(5, 0)>>, distances |-> <<500>>]

RouteB == [points |-> <<Pt(0, 0), Pt(3, 0), Pt(3, 3)>>, distances |-> <<300, 300>>]

RouteC == [points |-> <<Pt(5, 5)>>, distances |-> <<>>]

RouteD == [points |-> <<>>, distances |-> <<>>]

\* A route with two nodes at the same place: a segment of length 0.
RouteE == [points |-> <<Pt(0, 0), Pt(7, 0), Pt(7, 0), Pt(7, 7)>>, distances |-> <<700, 0, 700>>]

Routes == {RouteA, RouteB, RouteC, RouteD}

\* Routes of a run without position fixes and route changes.
ReckoningRoutes == {RouteB, RouteC, RouteE}

\* Routes the hook is created with.
InitialRoutes == {RouteB, RouteC}

\* |magnitude - 9.8| of a motion sample: at rest, and a stride peak.
AccelDeltas == {0, 200}

\* Raw compass readings (degrees), either side of north.
HeadingSamples == {350, 10}

\* Raw compass readings of a run of the orientation listener alone.
CompassSamples == {350, 10, 90}

\* Arguments of setManualPosition.
ManualPositions == {Pt(2, 1)}

ManualDistances == {250, 3000}

\* Arguments of applyBeaconFix (accuracy in millimeters).
BeaconFixes == {[pos |-> Pt(2, 1), accuracy |-> 2000],
                [pos |-> Pt(4, 2), accuracy |-> 10000],
                [pos |-> Pt(7, 7), accuracy |-> 20000],
                [pos |-> Pt(-3, 1), accuracy |-> 0]}

\* Amounts by which the clock advances between events (ms).
ClockSteps == {1000}

\* A long wait with tracking off (ms).
IdleDelay == 600000

\* The clock advances at most this far (ms) past the start and past the long wait.
MaxTime == 5000

\* Amounts by which the clock of a walk advances (ms), and how far.
WalkSteps == {250, 300}

MaxWalkTime == 1800

\* Most events of a run besides walking (motion samples, timers, the clock): a long
\* wait, a compass reading, a deactivation, a position fix, a route change.
MaxDisturbances == 1

\* Most activations of a run.
MaxActivations == 2

\* ---- pure helpers -------------------------------------------------------

\* segmentHeading(p1, p2): compass bearing of the segment, 0 = up (-y), clockwise.
segmentHeading(p1, p2) ==
    LET dx == p2.x - p1.x
        dy == p2.y - p1.y
        \* -dy is -0 for dy = 0, and Math.atan2(0, -0) is Math.PI
        angle == IF dx = 0 /\ dy = 0 THEN HalfTurn ELSE Atan2(dx, -dy)
    IN  IF angle < 0 THEN angle + 2 * HalfTurn ELSE angle

\* 1000 sin of 0, 10, ..., 90 degrees.
SinTable == <<0, 174, 342, 500, 643, 766, 866, 940, 985, 1000>>

\* 1000 sin(deg) and 1000 cos(deg) for deg a multiple of 10.
Sin(deg) ==
    LET q == (deg \div 10) % 36
    IN  IF q <= 9 THEN SinTable[q + 1]
        ELSE IF q <= 18 THEN SinTable[18 - q + 1]
        ELSE IF q <= 27 THEN -SinTable[q - 18 + 1]
        ELSE -SinTable[36 - q + 1]

Cos(deg) == Sin(deg + 90)

RECURSIVE SinSum(_)
SinSum(buffer) == IF buffer = <<>> THEN 0 ELSE Sin(Head(buffer)) + SinSum(Tail(buffer))

RECURSIVE CosSum(_)
CosSum(buffer) == IF buffer = <<>> THEN 0 ELSE Cos(Head(buffer)) + CosSum(Tail(buffer))

\* The sign of the rounding error left in sinSum when the sines of the buffer
\* cancel in exact arithmetic: Math.sin(angle * Math.PI / 180) is rounded for
\* every angle but 0, so the floating-point sum is 0 or a few 1e-17 either side.
RoundingResidues == {-1, 0, 1}

\* smoothHeading(buffer): the circular mean.  `if (avg < 0) avg += 360` also
\* catches an average that is negative by a rounding residue only, and the sum of
\* such an average (below 2.8e-14 in magnitude) and 360 rounds to 360.
smoothHeading(buffer, residue) ==
    IF Len(buffer) = 0 THEN 0
    ELSE LET avg == Atan2(SinSum(buffer), CosSum(buffer))
             inexact == \E k \in 1..Len(buffer) : buffer[k] # 0
         IN  IF avg < 0 \/ (avg = 0 /\ inexact /\ residue < 0)
             THEN avg + 2 * HalfTurn ELSE avg

\* The cumulative-distance table: cum = [0]; cum.push(cum[i] + segmentDistances[i]).
RECURSIVE CumulativeFrom(_, _)
CumulativeFrom(cum, rest) ==
    IF rest = <<>> THEN cum
    ELSE CumulativeFrom(Append(cum, cum[Len(cum)] + Head(rest)), Tail(rest))

Cumulative(distances) == CumulativeFrom(<<0>>, distances)

\* The indices i < cum.length - 1 with cum[i] <= d <= cum[i + 1].
Spans(cum, d) == {i \in 0..(Len(cum) - 2) : d >= At(cum, i) /\ d <= At(cum, i + 1)}

MinOf(S) == CHOOSE m \in S : \A o \in S : m <= o

\* The segment search with half-open spans [cum[i], cum[i + 1]) and without the
\* fallback to the last segment: at the end of the route no span holds d and seg
\* keeps its initial value, 0.
FindSegmentHalfOpen(cum, d) ==
    LET spans == {i \in 0..(Len(cum) - 2) : d >= At(cum, i) /\ d < At(cum, i + 1)}
    IN  IF spans # {} THEN MinOf(spans) ELSE 0

\* The segment search of updatePosition: the first span holding d, else the last
\* segment.
FindSegment(cum, d) ==
    IF Spans(cum, d) # {} THEN MinOf(Spans(cum, d)) ELSE Len(cum) - 2

\* Math.max(MIN_CONFIDENCE, confidence - decay) without the floor.
DecayedNoFloor(c, decay) == c - decay

\* Math.max(MIN_CONFIDENCE, confidence - decay)
Decayed(c, decay) == Max2(MIN_CONFIDENCE, c - decay)

\* stepLength * Math.min(1.2, Math.max(0.7, avgInterval / 500)) for the intervals
\* of stepTimes (their sum and number).
AdaptedStepLength(total, n) ==
    IF 10 * total >= 12 * NormalInterval * n THEN (stepLength * 12) \div 10
    ELSE IF 10 * total <= 7 * NormalInterval * n THEN (stepLength * 7) \div 10
    ELSE (stepLength * total) \div (NormalInterval * n)

\* Math.max(0.3, Math.min(0.98, 1 - accuracyMeters * 0.05))
BeaconConfidence(accuracy) ==
    Max2(BeaconConfidenceMin,
         Min2(BeaconConfidenceMax, FullConfidence - BeaconConfidenceLoss * accuracy))

\* The engine state as one record, and the assignment of a record to the next state.
EngState ==
    [routePoints |-> routePoints,
     segmentDistances |-> segmentDistances,
     active |-> active,
     position |-> position,
     heading |-> heading,
     routeHeading |-> routeHeading,
     currentSegment |-> currentSegment,
     distanceWalked |-> distanceWalked,
     sensorsAvailable |-> sensorsAvailable,
     stepCount |-> stepCount,
     confidence |-> confidence,
     source |-> source,
     isOffRoute |-> isOffRoute,
     adaptiveStepLength |-> adaptiveStepLength,
     lastAccelRef |-> lastAccelRef,
     lastStepTimeRef |-> lastStepTimeRef,
     distanceAlongRouteRef |-> distanceAlongRouteRef,
     currentSegmentRef |-> currentSegmentRef,
     accelBufferRef |-> accelBufferRef,
     compassBufferRef |-> compassBufferRef,
     confidenceRef |-> confidenceRef,
     lastConfidenceTickRef |-> lastConfidenceTickRef,
     stepTimesRef |-> stepTimesRef,
     cumulativeDistances |-> cumulativeDistances,
     now |-> now,
     confidenceTimer |-> confidenceTimer,
     simTimeout |-> simTimeout,
     simIntervals |-> simIntervals,
     deviationCalls |-> deviationCalls,
     advanceCalls |-> advanceCalls,
     threw |-> threw,
     disturbances |-> disturbances,
     activations |-> activations,
     graceStart |-> graceStart,
     sampleSinceActive |-> sampleSinceActive,
     positionSetter |-> positionSetter]

Commit(s) ==
    /\ routePoints' = s.routePoints
    /\ segmentDistances' = s.segmentDistances
    /\ active' = s.active
    /\ position' = s.position
    /\ heading' = s.heading
    /\ routeHeading' = s.routeHeading
    /\ currentSegment' = s.currentSegment
    /\ distanceWalked' = s.distanceWalked
    /\ sensorsAvailable' = s.sensorsAvailable
    /\ stepCount' = s.stepCount
    /\ confidence' = s.confidence
    /\ source' = s.source
    /\ isOffRoute' = s.isOffRoute
    /\ adaptiveStepLength' = s.adaptiveStepLength
    /\ lastAccelRef' = s.lastAccelRef
    /\ lastStepTimeRef' = s.lastStepTimeRef
    /\ distanceAlongRouteRef' = s.distanceAlongRouteRef
    /\ currentSegmentRef' = s.currentSegmentRef
    /\ accelBufferRef' = s.accelBufferRef
    /\ compassBufferRef' = s.compassBufferRef
    /\ confidenceRef' = s.confidenceRef
    /\ lastConfidenceTickRef' = s.lastConfidenceTickRef
    /\ stepTimesRef' = s.stepTimesRef
    /\ cumulativeDistances' = s.cumulativeDistances
    /\ now' = s.now
    /\ confidenceTimer' = s.confidenceTimer
    /\ simTimeout' = s.simTimeout
    /\ simIntervals' = s.simIntervals
    /\ deviationCalls' = s.deviationCalls
    /\ advanceCalls' = s.advanceCalls
    /\ threw' = s.threw
    /\ disturbances' = s.disturbances
    /\ activations' = s.activations
    /\ graceStart' = s.graceStart
    /\ sampleSinceActive' = s.sampleSinceActive
    /\ positionSetter' = s.positionSetter

\* ---- handlers, as functions of the engine state -------------------------

\* A handler starts with no exception and no segment-advance call recorded.
Enter(s) == [s EXCEPT !.threw = FALSE, !.advanceCalls = <<>>]

\* One more event besides walking.
Disturbed(s) == [s EXCEPT !.disturbances = @ + 1]

\* The simulation effect (lines 488-511) re-run after active, sensorsAvailable or
\* the route changed: the pending timeout is cleared and, when tracking is on, a
\* new one is set.  A timeout whose callback will find sensorsAvailable true does
\* nothing when it fires and is not kept.  Live intervals are not touched.
SimulationEffect(s) ==
    [s EXCEPT !.simTimeout = IF s.active /\ ~s.sensorsAvailable
                             THEN s.now + SimGrace ELSE NoTimer,
              !.graceStart = IF s.active /\ ~s.sampleSinceActive THEN s.now ELSE NoTimer]

\* The body of updatePosition after its early return (lines 164-211), for a
\* cumulative table and route points of at least 2 entries each.
interpolate(s, totalDist, posSource, rp) ==
    LET cum == s.cumulativeDistances
    IN  LET totalRouteDist == At(cum, Len(cum) - 1)
            clampedDist == Min2(totalDist, totalRouteDist)
            seg == FindSegment(cum, clampedDist)
            s1 == IF seg # s.currentSegmentRef
                  THEN [s EXCEPT !.currentSegmentRef = seg,
                                 !.currentSegment = seg,
                                 !.advanceCalls = Append(@, seg)]
                  ELSE s
        IN  IF ~Has(rp, seg) THEN [s1 EXCEPT !.threw = TRUE]
            ELSE
            LET segStart == At(cum, seg)
                segEnd == IF At(cum, seg + 1) # 0 THEN At(cum, seg + 1) ELSE At(cum, seg)
                segLen == segEnd - segStart
                p1 == At(rp, seg)
                p2 == IF Has(rp, seg + 1) THEN At(rp, seg + 1) ELSE At(rp, seg)
                along == clampedDist - segStart
                newPos == IF segLen > 0
                          THEN [x |-> 1000 * p1.x + ((p2.x - p1.x) * 1000 * along) \div segLen,
                                y |-> 1000 * p1.y + ((p2.y - p1.y) * 1000 * along) \div segLen]
                          ELSE AsPosition(p1)
                s2 == [s1 EXCEPT !.position = newPos,
                                 !.positionSetter = posSource,
                                 !.source = posSource,
                                 !.routeHeading = IF Has(rp, seg + 1)
                                                  THEN segmentHeading(At(rp, seg), At(rp, seg + 1))
                                                  ELSE @]
                overshoot == totalDist - totalRouteDist
            IN  IF overshoot > ROUTE_DEVIATION_TOLERANCE_M
                THEN [s2 EXCEPT !.isOffRoute = TRUE, !.deviationCalls = @ + 1]
                ELSE [s2 EXCEPT !.isOffRoute = FALSE, !.deviationCalls = 0]

\* updatePosition without its early return: a short route puts the position at its
\* first point and runs the deviation test against a route of length 0; no route
\* point at all is an exception.
updatePositionUnguarded(s, totalDist, posSource, rp) ==
    LET cum == s.cumulativeDistances
    IN  IF Len(cum) >= 2 /\ Len(rp) >= 2 THEN interpolate(s, totalDist, posSource, rp)
        ELSE IF rp = <<>> THEN [s EXCEPT !.threw = TRUE]
        ELSE LET s2 == [s EXCEPT !.position = AsPosition(At(rp, 0)),
                                 !.positionSetter = posSource,
                                 !.source = posSource]
             IN  IF totalDist - At(cum, Len(cum) - 1) > ROUTE_DEVIATION_TOLERANCE_M
                 THEN [s2 EXCEPT !.isOffRoute = TRUE, !.deviationCalls = @ + 1]
                 ELSE [s2 EXCEPT !.isOffRoute = FALSE, !.deviationCalls = 0]

\* updatePosition(totalDist, posSource) of the closure that holds route points rp.
updatePosition(s, totalDist, posSource, rp) ==
    IF Len(s.cumulativeDistances) < 2 \/ Len(rp) < 2 THEN s
    ELSE interpolate(s, totalDist, posSource, rp)

\* The callback of the confidence interval (lines 222-230).
confidenceTick(s) ==
    LET elapsed == s.now - s.lastConfidenceTickRef
        decay == elapsed * CONFIDENCE_DECAY_PER_SECOND
        c == Decayed(s.confidenceRef, decay)
    IN  [s EXCEPT !.lastConfidenceTickRef = s.now,
                  !.confidenceRef = c,
                  !.confidence = c,
                  !.confidenceTimer = s.now + ConfidencePeriod]

\* recalibrateToNode taking the cumulative distance of the node before.
recalibrateToNodeBefore(s, nodeIndex) ==
    IF nodeIndex < 0 \/ nodeIndex >= Len(s.routePoints) THEN s
    ELSE
    LET cum == s.cumulativeDistances
        d == IF Has(cum, nodeIndex - 1) THEN At(cum, nodeIndex - 1) ELSE 0
    IN  [s EXCEPT !.distanceAlongRouteRef = d,
                  !.distanceWalked = d,
                  !.position = AsPosition(At(s.routePoints, nodeIndex)),
                  !.positionSetter = "manual",
                  !.source = "manual",
                  !.confidenceRef = NodeConfidence,
                  !.confidence = NodeConfidence,
                  !.isOffRoute = FALSE,
                  !.deviationCalls = 0]

\* recalibrateToNode(nodeIndex)
recalibrateToNode(s, nodeIndex) ==
    IF nodeIndex < 0 \/ nodeIndex >= Len(s.routePoints) THEN s
    ELSE
    LET cum == s.cumulativeDistances
        d == IF Has(cum, nodeIndex) THEN At(cum, nodeIndex) ELSE 0
        seg == Min2(nodeIndex, Len(s.routePoints) - 2)
    IN  [s EXCEPT !.distanceAlongRouteRef = d,
                  !.currentSegmentRef = seg,
                  !.currentSegment = seg,
                  !.distanceWalked = d,
                  !.position = AsPosition(At(s.routePoints, nodeIndex)),
                  !.positionSetter = "manual",
                  !.source = "manual",
                  !.confidenceRef = NodeConfidence,
                  !.confidence = NodeConfidence,
                  !.isOffRoute = FALSE,
                  !.deviationCalls = 0]

\* setManualPosition(pos, distAlongRoute)
setManualPosition(s, pos, distAlongRoute) ==
    LET cum == s.cumulativeDistances
        s1 == [s EXCEPT !.distanceAlongRouteRef = distAlongRoute,
                        !.distanceWalked = distAlongRoute,
                        !.position = AsPosition(pos),
                        !.positionSetter = "manual",
                        !.source = "manual",
                        !.confidenceRef = TapConfidence,
                        !.confidence = TapConfidence,
                        !.isOffRoute = FALSE,
                        !.deviationCalls = 0]
    IN  IF Spans(cum, distAlongRoute) # {}
        THEN [s1 EXCEPT !.currentSegmentRef = MinOf(Spans(cum, distAlongRoute)),
                        !.currentSegment = MinOf(Spans(cum, distAlongRoute))]
        ELSE s1

\* The projection loop of applyBeaconFix from segment i on.  best holds bestDist
\* squared as the fraction num / den (den = 0: Infinity) and bestRouteDistance.
RECURSIVE BeaconScan(_, _, _, _, _)
BeaconScan(rp, cum, pos, i, best) ==
    IF i >= Len(rp) - 1 THEN best
    ELSE
    LET p1 == At(rp, i)
        p2 == At(rp, i + 1)
        dx == p2.x - p1.x
        dy == p2.y - p1.y
        segLenSq == dx * dx + dy * dy
        dot == (pos.x - p1.x) * dx + (pos.y - p1.y) * dy
        wSq == (pos.x - p1.x) * (pos.x - p1.x) + (pos.y - p1.y) * (pos.y - p1.y)
        eSq == (pos.x - p2.x) * (pos.x - p2.x) + (pos.y - p2.y) * (pos.y - p2.y)
        segLen == At(cum, i + 1) - At(cum, i)
        \* t clamped to [0, 1]; the squared distance to the projection as a fraction.
        num == IF dot <= 0 THEN wSq ELSE IF dot >= segLenSq THEN eSq
               ELSE wSq * segLenSq - dot * dot
        den == IF dot <= 0 \/ dot >= segLenSq THEN 1 ELSE segLenSq
        along == IF dot <= 0 THEN 0 ELSE IF dot >= segLenSq THEN segLen
                 ELSE (dot * segLen) \div segLenSq
        closer == best.den = 0 \/ num * best.den < best.num * den
    IN  IF segLenSq = 0 THEN BeaconScan(rp, cum, pos, i + 1, best)
        ELSE IF closer
             THEN BeaconScan(rp, cum, pos, i + 1,
                             [num |-> num, den |-> den, routeDistance |-> At(cum, i) + along])
             ELSE BeaconScan(rp, cum, pos, i + 1, best)

\* applyBeaconFix projecting onto the first segment only.
applyBeaconFixFirstSegment(s, pos, accuracy) ==
    LET best == BeaconScan(SubSeq(s.routePoints, 1, Min2(2, Len(s.routePoints))),
                           s.cumulativeDistances, pos, 0,
                           [num |-> 0, den |-> 0, routeDistance |-> 0])
        bestRouteDistance == best.routeDistance
        beaconConfidence == BeaconConfidence(accuracy)
        s1 == [s EXCEPT !.distanceAlongRouteRef = bestRouteDistance,
                        !.distanceWalked = bestRouteDistance,
                        !.source = "beacon",
                        !.confidenceRef = beaconConfidence,
                        !.confidence = beaconConfidence,
                        !.isOffRoute = FALSE,
                        !.deviationCalls = 0]
    IN  updatePosition(s1, bestRouteDistance, "beacon", s.routePoints)

\* applyBeaconFix(pos, accuracyMeters)
applyBeaconFix(s, pos, accuracy) ==
    LET best == BeaconScan(s.routePoints, s.cumulativeDistances, pos, 0,
                           [num |-> 0, den |-> 0, routeDistance |-> 0])
        bestRouteDistance == best.routeDistance
        beaconConfidence == BeaconConfidence(accuracy)
        s1 == [s EXCEPT !.distanceAlongRouteRef = bestRouteDistance,
                        !.distanceWalked = bestRouteDistance,
                        !.source = "beacon",
                        !.confidenceRef = beaconConfidence,
                        !.confidence = beaconConfidence,
                        !.isOffRoute = FALSE,
                        !.deviationCalls = 0]
    IN  updatePosition(s1, bestRouteDistance, "beacon", s.routePoints)

\* The effects run by a render with new routePoints / segmentDistances: the
\* cumulative table (lines 150-156), the reset (lines 323-342), the motion effect
\* (its listener now closes over the new updatePosition) and the simulation effect.
routeEffects(s, route) ==
    LET rp == route.points
        s1 == [s EXCEPT !.routePoints = rp,
                        !.segmentDistances = route.distances,
                        !.cumulativeDistances = Cumulative(route.distances)]
        s2 == IF Len(rp) > 0
              THEN [s1 EXCEPT !.position = AsPosition(At(rp, 0)),
                              !.positionSetter = "accelerometer",
                              !.currentSegment = 0,
                              !.currentSegmentRef = 0,
                              !.distanceAlongRouteRef = 0,
                              !.distanceWalked = 0,
                              !.stepCount = 0,
                              !.confidenceRef = FullConfidence,
                              !.confidence = FullConfidence,
                              !.source = "accelerometer",
                              !.isOffRoute = FALSE,
                              !.deviationCalls = 0,
                              !.compassBufferRef = <<>>,
                              !.stepTimesRef = <<>>,
                              !.routeHeading = IF Has(rp, 1)
                                               THEN segmentHeading(At(rp, 0), At(rp, 1))
                                               ELSE @]
              ELSE s1
    IN  SimulationEffect(s2)

\* The step test of handleMotion (lines 371-375) without its debounce.
stepDetectedNoDebounce(smoothed, lastAccel, timeSinceLastStep) ==
    /\ smoothed > stepThreshold
    /\ lastAccel <= stepThreshold

\* The step test of handleMotion (lines 371-375): the smoothed reading crosses
\* the threshold upwards, more than 250 ms after the last step.
stepDetected(smoothed, lastAccel, timeSinceLastStep) ==
    /\ smoothed > stepThreshold
    /\ lastAccel <= stepThreshold
    /\ timeSinceLastStep > StepDebounce

\* handleMotion(event) for a sample with all three axes present; delta is
\* |magnitude - 9.8|.
handleMotion(s, delta) ==
    LET sampled == [s EXCEPT !.sampleSinceActive = TRUE, !.graceStart = NoTimer]
        s0 == IF s.sensorsAvailable THEN sampled
              ELSE SimulationEffect([sampled EXCEPT !.sensorsAvailable = TRUE])
        pushed == Append(s.accelBufferRef, delta)
        buf == IF Len(pushed) > AccelBufferSize THEN Tail(pushed) ELSE pushed
        smoothed == (Sum(buf) * AccelScale) \div Len(buf)
        timeSinceLastStep == s.now - s.lastStepTimeRef
        s1 == [s0 EXCEPT !.accelBufferRef = buf]
    IN  IF stepDetected(smoothed, s.lastAccelRef, timeSinceLastStep)
        THEN
        LET pushedTimes == Append(s.stepTimesRef, timeSinceLastStep)
            stepTimes == IF Len(pushedTimes) > StepTimesSize THEN Tail(pushedTimes)
                         ELSE pushedTimes
            effectiveStepLength == IF Len(stepTimes) >= 3
                                   THEN AdaptedStepLength(Sum(stepTimes), Len(stepTimes))
                                   ELSE stepLength
            d == s.distanceAlongRouteRef + effectiveStepLength
            c == Decayed(s.confidenceRef, CONFIDENCE_DECAY_PER_METER * effectiveStepLength)
            s2 == [s1 EXCEPT !.lastStepTimeRef = s.now,
                             !.stepTimesRef = stepTimes,
                             !.adaptiveStepLength = IF Len(stepTimes) >= 3
                                                    THEN effectiveStepLength ELSE @,
                             !.distanceAlongRouteRef = d,
                             !.confidenceRef = c,
                             !.confidence = c,
                             !.stepCount = @ + 1,
                             !.distanceWalked = d]
            s3 == updatePosition(s2, d, "accelerometer", s.routePoints)
        IN  IF s3.threw THEN s3 ELSE [s3 EXCEPT !.lastAccelRef = smoothed]
        ELSE [s1 EXCEPT !.lastAccelRef = smoothed]

\* handleOrientation(event) for an event that carries a heading.
handleOrientation(s, rawHeading, residue) ==
    LET pushed == Append(s.compassBufferRef, rawHeading)
        buf == IF Len(pushed) > COMPASS_BUFFER_SIZE THEN Tail(pushed) ELSE pushed
    IN  [s EXCEPT !.compassBufferRef = buf, !.heading = smoothHeading(buf, residue)]

\* The callback of a simulation interval created under route points rp
\* (lines 493-504).
simulationTick(s, rp) ==
    LET d == s.distanceAlongRouteRef + SimStep
        c == Decayed(s.confidenceRef, CONFIDENCE_DECAY_PER_METER * SimStep)
        s1 == [s EXCEPT !.distanceAlongRouteRef = d,
                        !.confidenceRef = c,
                        !.confidence = c,
                        !.stepCount = @ + 1,
                        !.distanceWalked = d,
                        !.source = "simulation"]
    IN  updatePosition(s1, d, "simulation", rp)

\* ---- actions ------------------------------------------------------------

\* The hook after its first render and effects on the given route, tracking off.
EngInitWith(route) ==
    LET rp == route.points
    IN  /\ routePoints = rp
        /\ segmentDistances = route.distances
        /\ active = FALSE
        /\ position = IF Has(rp, 0) THEN AsPosition(At(rp, 0)) ELSE [x |-> 0, y |-> 0]
        /\ heading = NoHeading
        /\ routeHeading = IF Has(rp, 1) THEN segmentHeading(At(rp, 0), At(rp, 1))
                          ELSE NoHeading
        /\ currentSegment = 0
        /\ distanceWalked = 0
        /\ sensorsAvailable = FALSE
        /\ stepCount = 0
        /\ confidence = FullConfidence
        /\ source = "accelerometer"
        /\ isOffRoute = FALSE
        /\ adaptiveStepLength = stepLength
        /\ lastAccelRef = 0
        /\ lastStepTimeRef = 0
        /\ distanceAlongRouteRef = 0
        /\ currentSegmentRef = 0
        /\ accelBufferRef = <<>>
        /\ compassBufferRef = <<>>
        /\ confidenceRef = FullConfidence
        /\ lastConfidenceTickRef = EpochStart
        /\ stepTimesRef = <<>>
        /\ cumulativeDistances = Cumulative(route.distances)
        /\ now = EpochStart
        /\ confidenceTimer = NoTimer
        /\ simTimeout = NoTimer
        /\ simIntervals = {}
        /\ deviationCalls = 0
        /\ advanceCalls = <<>>
        /\ threw = FALSE
        /\ disturbances = 0
        /\ activations = 0
        /\ graceStart = NoTimer
        /\ sampleSinceActive = FALSE
        /\ positionSetter = "accelerometer"

\* The hook after its first render and effects, tracking off.
EngInit == \E route \in InitialRoutes : EngInitWith(route)

\* Time since the start, or since the end of the long wait.
SessionClock == (now - EpochStart) % IdleDelay

\* Some timer is due.
TimerDue ==
    \/ confidenceTimer # NoTimer /\ confidenceTimer <= now
    \/ simTimeout # NoTimer /\ simTimeout <= now
    \/ \E iv \in simIntervals : iv.due <= now

\* The clock advances, while a listener or a timer is live and once the timers
\* that are due have fired.
Tick ==
    /\ active \/ simIntervals # {}
    /\ ~TimerDue
    /\ \E dt \in ClockSteps :
        /\ SessionClock + dt <= MaxTime
        /\ Commit([Enter(EngState) EXCEPT !.now = now + dt])
    /\ UNCHANGED <<routerVars, dirVars>>

\* A long wait before tracking is first switched on.
IdleWait ==
    /\ now = EpochStart
    /\ ~active
    /\ activations = 0
    /\ disturbances < MaxDisturbances
    /\ Commit([Disturbed(Enter(EngState)) EXCEPT !.now = now + IdleDelay])
    /\ UNCHANGED <<routerVars, dirVars>>

\* The caller switches `active`: the effects that depend on it are cleaned up and
\* re-run (confidence timer, motion and orientation listeners, simulation).
setActive(s, on) ==
    SimulationEffect([s EXCEPT !.active = on,
                               !.sampleSinceActive = FALSE,
                               !.confidenceTimer = IF on THEN s.now + ConfidencePeriod
                                                   ELSE NoTimer])

Activate ==
    /\ ~active
    /\ activations < MaxActivations
    /\ Commit(setActive([Enter(EngState) EXCEPT !.activations = @ + 1], TRUE))
    /\ UNCHANGED <<routerVars, dirVars>>

Deactivate ==
    /\ active
    /\ ~TimerDue
    /\ disturbances < MaxDisturbances
    /\ Commit(setActive(Disturbed(Enter(EngState)), FALSE))
    /\ UNCHANGED <<routerVars, dirVars>>

\* The caller hands in another route.
RouteChange ==
    /\ ~TimerDue
    /\ disturbances < MaxDisturbances
    /\ \E route \in Routes :
        /\ route.points # routePoints
        /\ Commit(routeEffects(Disturbed(Enter(EngState)), route))
    /\ UNCHANGED <<routerVars, dirVars>>

\* A devicemotion event reaches the listener.
Motion ==
    /\ active
    /\ ~TimerDue
    /\ \E delta \in AccelDeltas : Commit(handleMotion(Enter(EngState), delta))
    /\ UNCHANGED <<routerVars, dirVars>>

\* A deviceorientation event reaches the listener.
Orientation ==
    /\ active
    /\ ~TimerDue
    /\ disturbances < MaxDisturbances
    /\ \E rawHeading \in HeadingSamples, residue \in RoundingResidues :
        Commit(handleOrientation(Disturbed(Enter(EngState)), rawHeading, residue))
    /\ UNCHANGED <<routerVars, dirVars>>

\* The confidence interval fires.
ConfidenceTick ==
    /\ confidenceTimer # NoTimer
    /\ now >= confidenceTimer
    /\ Commit(confidenceTick(Enter(EngState)))
    /\ UNCHANGED <<routerVars, dirVars>>

\* The grace timeout fires with no motion sample seen: a simulation interval is
\* created over the current route points.
SimulationStart ==
    /\ simTimeout # NoTimer
    /\ now >= simTimeout
    /\ Commit([Enter(EngState) EXCEPT
                 !.simTimeout = NoTimer,
                 !.simIntervals = @ \cup {[routePoints |-> routePoints,
                                           due |-> now + SimPeriod]}])
    /\ UNCHANGED <<routerVars, dirVars>>

\* The simulation interval iv fires.
SimulationTickOf(iv) ==
    /\ iv \in simIntervals
    /\ now >= iv.due
    /\ Commit([simulationTick(Enter(EngState), iv.routePoints) EXCEPT
                  !.simIntervals = (@ \ {iv}) \cup {[iv EXCEPT !.due = now + SimPeriod]}])
    /\ UNCHANGED <<routerVars, dirVars>>

\* A simulation interval fires.
SimulationTick == \E iv \in simIntervals : SimulationTickOf(iv)

\* The caller invokes recalibrateToNode(nodeIndex); an index out of range changes
\* nothing.
RecalibrateAt(nodeIndex) ==
    /\ ~TimerDue
    /\ disturbances < MaxDisturbances
    /\ Commit(recalibrateToNode(
                 IF Has(routePoints, nodeIndex) THEN Disturbed(Enter(EngState))
                 ELSE Enter(EngState), nodeIndex))
    /\ UNCHANGED <<routerVars, dirVars>>

\* ... with an index in or just out of range.
Recalibrate == \E nodeIndex \in (-1)..Len(routePoints) : RecalibrateAt(nodeIndex)

\* The caller invokes setManualPosition.
ManualSet ==
    /\ ~TimerDue
    /\ disturbances < MaxDisturbances
    /\ \E pos \in ManualPositions, d \in ManualDistances :
        Commit(setManualPosition(Disturbed(Enter(EngState)), pos, d))
    /\ UNCHANGED <<routerVars, dirVars>>

\* The caller invokes applyBeaconFix(fix.pos, fix.accuracy).
BeaconFixWith(fix) ==
    /\ ~TimerDue
    /\ disturbances < MaxDisturbances
    /\ Commit(applyBeaconFix(Disturbed(Enter(EngState)), fix.pos, fix.accuracy))
    /\ UNCHANGED <<routerVars, dirVars>>

BeaconFix == \E fix \in BeaconFixes : BeaconFixWith(fix)

\* A deviceorientation event of a run of the orientation listener alone: any
\* number of readings, the clock standing still.
CompassReading ==
    /\ active
    /\ \E rawHeading \in CompassSamples, residue \in RoundingResidues :
        Commit(handleOrientation(Enter(EngState), rawHeading, residue))
    /\ UNCHANGED <<routerVars, dirVars>>

CompassNext ==
    \/ Activate
    \/ CompassReading

\* The clock of a walk: it advances in steps around the debounce time once the
\* motion sensor has delivered its first sample (so no simulation is pending), up
\* to MaxWalkTime, and once the timers that are due have fired.
WalkTick ==
    /\ active
    /\ sensorsAvailable
    /\ ~TimerDue
    /\ \E dt \in WalkSteps :
        /\ SessionClock + dt <= MaxWalkTime
        /\ Commit([Enter(EngState) EXCEPT !.now = now + dt])
    /\ UNCHANGED <<routerVars, dirVars>>

\* Dead reckoning and simulation alone: tracking is switched on, motion samples
\* arrive or the simulation starts, the timers fire; the caller invokes nothing.
ReckoningNext ==
    \/ Tick
    \/ Activate
    \/ Motion
    \/ ConfidenceTick
    \/ SimulationStart
    \/ SimulationTick

\* A walk with the motion sensor: tracking is switched on, motion samples arrive,
\* the confidence interval fires.
WalkNext ==
    \/ Activate
    \/ Motion
    \/ WalkTick
    \/ ConfidenceTick

EngNext ==
    \/ Tick
    \/ IdleWait
    \/ Activate
    \/ Deactivate
    \/ RouteChange
    \/ Motion
    \/ Orientation
    \/ ConfidenceTick
    \/ SimulationStart
    \/ SimulationTick
    \/ Recalibrate
    \/ ManualSet
    \/ BeaconFix

(***************************************************************************)
(*                            SPECIFICATIONS                               *)
(***************************************************************************)

\* The engine not mounted.
EngIdle ==
    /\ routePoints = <<>>
    /\ segmentDistances = <<>>
    /\ active = FALSE
    /\ position = [x |-> 0, y |-> 0]
    /\ heading = NoHeading
    /\ routeHeading = NoHeading
    /\ currentSegment = 0
    /\ distanceWalked = 0
    /\ sensorsAvailable = FALSE
    /\ stepCount = 0
    /\ confidence = 0
    /\ source = "accelerometer"
    /\ isOffRoute = FALSE
    /\ adaptiveStepLength = 0
    /\ lastAccelRef = 0
    /\ lastStepTimeRef = 0
    /\ distanceAlongRouteRef = 0
    /\ currentSegmentRef = 0
    /\ accelBufferRef = <<>>
    /\ compassBufferRef = <<>>
    /\ confidenceRef = 0
    /\ lastConfidenceTickRef = 0
    /\ stepTimesRef = <<>>
    /\ cumulativeDistances = <<>>
    /\ now = 0
    /\ confidenceTimer = NoTimer
    /\ simTimeout = NoTimer
    /\ simIntervals = {}
    /\ deviationCalls = 0
    /\ advanceCalls = <<>>
    /\ threw = FALSE
    /\ disturbances = 0
    /\ activations = 0
    /\ graceStart = NoTimer
    /\ sampleSinceActive = FALSE
    /\ positionSetter = "accelerometer"

RouterInit == RouterStart /\ DirIdle /\ EngIdle

SpecRouter == RouterInit /\ [][RouterNext]_vars

\* A call of dijkstra with any ids; the call runs on once started.
RouterAnyIdsInit == RouterStartAnyIds /\ DirIdle /\ EngIdle

SpecRouterAnyIds == RouterAnyIdsInit /\ [][RouterNext]_vars /\ WF_vars(RouterNext)

DirInit == DirStart /\ RouterIdle /\ EngIdle

SpecDir == DirInit /\ [][DirNext]_vars

Init == EngInit /\ RouterIdle /\ DirIdle

Next == EngNext

Spec == Init /\ [][Next]_vars

\* The orientation listener alone.
SpecCompass == Init /\ [][CompassNext]_vars

\* A walk with the motion sensor.
SpecWalk == Init /\ [][WalkNext]_vars

\* Dead reckoning and simulation alone.
ReckoningInit == (\E route \in ReckoningRoutes : EngInitWith(route)) /\ RouterIdle /\ DirIdle

SpecReckoning == ReckoningInit /\ [][ReckoningNext]_vars

(***************************************************************************)
(*                 Router: reference definitions and claims                *)
(***************************************************************************)

\* Edges of es that join a and b, in either direction.
Joining(es, a, b) ==
    {e \in es : (e.from = a /\ e.to = b) \/ (e.from = b /\ e.to = a)}

\* p is a walk of es: consecutive nodes are joined by an edge of es.
IsWalk(p, es) == \A i \in 1..(Len(p) - 1) : Joining(es, p[i], p[i + 1]) # {}

\* The weight of walk p, each hop by its lightest joining edge.
RECURSIVE WalkWeight(_, _)
WalkWeight(p, es) ==
    IF Len(p) < 2 THEN 0
    ELSE Min({e.weight : e \in Joining(es, p[1], p[2])}) + WalkWeight(Tail(p), es)

\* Every sequence of pairwise distinct nodes of at most k nodes.
RECURSIVE DistinctSeqs(_)
DistinctSeqs(k) ==
    IF k = 1 THEN {<<n>> : n \in NodeIds}
    ELSE LET P == DistinctSeqs(k - 1)
             ext == {Append(p, n) : p \in P, n \in NodeIds}
         IN  P \cup {q \in ext : \A i \in 1..(Len(q) - 1) : q[i] # q[Len(q)]}

SimplePaths == DistinctSeqs(Len(NodeList))

\* The least weight of a simple path of es from s to t, Infinity when there is none
\* (with positive weights a lightest walk is a simple path).
ShortestDist(es, s, t) ==
    LET ws == {WalkWeight(p, es) :
                 p \in {q \in SimplePaths : /\ q[1] = s
                                            /\ q[Len(q)] = t
                                            /\ IsWalk(q, es)}}
    IN  IF ws = {} THEN Infinity ELSE Min(ws)

NonStairs(es) == {e \in es : ~e.stairs}

RouterDone == rpc = "done"

\* C1: in normal mode dijkstra returns, whenever the end is reachable, a path from
\* start to end whose consecutive nodes are joined by edges, whose distance is the
\* sum of the weights of those edges, and whose distance is the least weight of any
\* start-to-end path of the undirected graph.
C1_ShortestPath ==
    (RouterDone /\ ~accessibilityMode) =>
        /\ (ShortestDist(edges, startId, endId) # Infinity => result.kind = "found")
        /\ (result.kind = "found" =>
              /\ Len(result.path) >= 1
              /\ result.path[1] = startId
              /\ result.path[Len(result.path)] = endId
              /\ IsWalk(result.path, edges)
              /\ result.distance = WalkWeight(result.path, edges)
              /\ result.distance = ShortestDist(edges, startId, endId))

\* A returned path of three nodes that beats a direct, heavier edge.
C1_Witness ==
    /\ RouterDone /\ ~accessibilityMode /\ result.kind = "found"
    /\ Len(result.path) = 3
    /\ Joining(edges, startId, endId) # {}
    /\ result.distance = 2

\* C2: in accessibility mode a returned path never joins two consecutive nodes by a
\* stairs edge alone, and it is a minimum-weight path of the graph without its
\* stairs edges.
C2_AvoidsStairs ==
    (RouterDone /\ accessibilityMode /\ result.kind = "found") =>
        /\ result.path[1] = startId
        /\ result.path[Len(result.path)] = endId
        /\ IsWalk(result.path, NonStairs(edges))
        /\ result.distance = WalkWeight(result.path, NonStairs(edges))
        /\ result.distance = ShortestDist(NonStairs(edges), startId, endId)

\* A stairs edge offers a strictly shorter way and the returned path is the longer,
\* step-free one.
C2_Witness ==
    /\ RouterDone /\ accessibilityMode /\ result.kind = "found"
    /\ Lt(ShortestDist(edges, startId, endId), result.distance)

\* C3: dijkstra returns null exactly when the end node is unreachable from the
\* start node in the filtered graph, and a result otherwise.
C3_NullIffUnreachable ==
    RouterDone =>
        (result.kind = "null" <=>
            ShortestDist(ActiveEdges(edges, accessibilityMode), startId, endId) = Infinity)

\* Null because the stairs filter disconnected a pair the full graph connects.
C3_Witness ==
    /\ RouterDone /\ accessibilityMode /\ result.kind = "null"
    /\ ShortestDist(edges, startId, endId) # Infinity

\* C4: with start == end the result is the path [start] with distance 0, in both
\* modes and whatever the edges.
C4_TrivialPath ==
    (RouterDone /\ startId = endId) =>
        result = [kind |-> "found", path |-> <<startId>>, distance |-> 0]

\* Start == end on a graph that has edges at the start node, in accessibility mode.
C4_Witness ==
    /\ RouterDone /\ startId = endId /\ accessibilityMode
    /\ Adj(edges, startId) # {}
    /\ result.kind = "found"

(***************************************************************************)
(*            Direction compiler: reference definitions and claims         *)
(***************************************************************************)

\* The direction of segment a -> b as a vector; a segment of length zero counts
\* as pointing along +x, the bearing atan2 gives it.
SegVec(a, b) ==
    IF a = b THEN [x |-> 1, y |-> 0] ELSE [x |-> b.x - a.x, y |-> b.y - a.y]

Cross(u, v) == u.x * v.y - u.y * v.x

Dot(u, v) == u.x * v.x + u.y * v.y

\* The angle between the segments p -> c and c -> n is above 30 degrees in absolute
\* value: it is obtuse or right, or its squared tangent is above 1/3.
TurnExceeds(p, c, n) ==
    LET cr == Cross(SegVec(p, c), SegVec(c, n))
        dt == Dot(SegVec(p, c), SegVec(c, n))
    IN  dt <= 0 \/ 3 * cr * cr > dt * dt

\* The labels the sign of that angle admits: positive (counter-clockwise in the
\* x/y axes) is left, negative is right, a reversal (+-180) is either.
TurnLabels(p, c, n) ==
    LET cr == Cross(SegVec(p, c), SegVec(c, n))
    IN  IF cr > 0 THEN {"left"} ELSE IF cr < 0 THEN {"right"} ELSE {"left", "right"}

\* The label sets of the interior nodes k..Len-1 (1-based) that exceed the threshold.
RECURSIVE ExpectedTurns(_, _)
ExpectedTurns(ns, k) ==
    IF k > Len(ns) - 1 THEN <<>>
    ELSE IF TurnExceeds(ns[k - 1], ns[k], ns[k + 1])
         THEN <<TurnLabels(ns[k - 1], ns[k], ns[k + 1])>> \o ExpectedTurns(ns, k + 1)
         ELSE ExpectedTurns(ns, k + 1)

IsTurnStep(s) == s.direction \in {"left", "right"}

DirDone == gpc = "done"

\* C9: a left or right step is emitted for an interior node exactly when the angle
\* between its incoming and outgoing segments is above 30 degrees in absolute
\* value, one step per such node and in path order, left for a positive angle and
\* right for a negative one; the other interior nodes emit nothing.
C9_TurnEmission ==
    (DirDone /\ Len(pathNodes) >= 2) =>
        LET turns == SelectSeq(steps, IsTurnStep)
            expected == ExpectedTurns(pathNodes, 2)
        IN  /\ Len(turns) = Len(expected)
            /\ \A j \in 1..Len(turns) : turns[j].direction \in expected[j]

\* Four nodes: a bend below the threshold that emits nothing, then a right turn.
C9_Witness ==
    /\ DirDone /\ Len(pathNodes) = 4
    /\ \A k \in 1..3 : pathNodes[k] # pathNodes[k + 1]
    /\ ~TurnExceeds(pathNodes[1], pathNodes[2], pathNodes[3])
    /\ Cross(SegVec(pathNodes[1], pathNodes[2]), SegVec(pathNodes[2], pathNodes[3])) # 0
    /\ TurnExceeds(pathNodes[2], pathNodes[3], pathNodes[4])
    /\ Cross(SegVec(pathNodes[2], pathNodes[3]), SegVec(pathNodes[3], pathNodes[4])) < 0
    /\ Len(steps) = 3
    /\ steps[2].direction = "right"

\* The integer square root, rounded down.
RECURSIVE SqrtSearch(_, _, _)
SqrtSearch(n, lo, hi) ==
    IF lo >= hi THEN lo
    ELSE LET mid == (lo + hi + 1) \div 2
         IN  IF mid * mid <= n THEN SqrtSearch(n, mid, hi) ELSE SqrtSearch(n, lo, mid - 1)

\* 46340 is the largest integer whose square fits in 32 bits.
SqrtFloor(n) == SqrtSearch(n, 0, IF n < 46340 THEN n ELSE 46340)

SqrtCeil(n) == IF SqrtFloor(n) * SqrtFloor(n) = n THEN SqrtFloor(n) ELSE SqrtFloor(n) + 1

SegSq(a, b) == (b.x - a.x) * (b.x - a.x) + (b.y - a.y) * (b.y - a.y)

\* The length of the path in hundredths of a coordinate unit, rounded down and up.
RECURSIVE PathLenLo(_)
PathLenLo(ns) ==
    IF Len(ns) < 2 THEN 0 ELSE SqrtFloor(10000 * SegSq(ns[1], ns[2])) + PathLenLo(Tail(ns))

RECURSIVE PathLenHi(_)
PathLenHi(ns) ==
    IF Len(ns) < 2 THEN 0 ELSE SqrtCeil(10000 * SegSq(ns[1], ns[2])) + PathLenHi(Tail(ns))

\* The sum of the per-segment distances in meters, each rounded as distanceMeters does.
RECURSIVE PathMeters(_, _)
PathMeters(ns, sf) ==
    IF Len(ns) < 2 THEN 0
    ELSE RoundSqrtDiv(SegSq(ns[1], ns[2]), sf, 0) + PathMeters(Tail(ns), sf)

\* a / b rounded to the nearest integer, halves up.
RoundDiv(a, b) == (2 * a + b) \div (2 * b)

\* The total length of the path in meters, under every reading of the rounding.
TotalMeters(ns, sf) ==
    {RoundDiv(PathLenLo(ns), 100 * sf), RoundDiv(PathLenHi(ns), 100 * sf), PathMeters(ns, sf)}

NoTurns(ns) == ExpectedTurns(ns, 2) = <<>>

\* C10: a path of at least 2 known nodes none of whose interior nodes turns by more
\* than 30 degrees yields exactly the steps start, straight, arrive, and the
\* straight step's distance is the total length of the path in meters.
C10_StraightLegIsPathLength ==
    (DirDone /\ Len(pathNodes) >= 2 /\ NoTurns(pathNodes)) =>
        /\ Len(steps) = 3
        /\ steps[1].direction = "start"
        /\ steps[2].direction = "straight"
        /\ steps[3].direction = "arrive"
        /\ steps[2].distance \in TotalMeters(pathNodes, scaleFactor)


\* C11: for a path that resolves to at least 2 known nodes the returned list
\* begins with a start step, ends with an arrive step, has no other start or
\* arrive step, and has 2 + (number of interior turns above the threshold) steps,
\* or 3 steps when there is no such turn.
C11_StepListShape ==
    (DirDone /\ Len(pathNodes) >= 2) =>
        LET n == Len(steps)
            turns == Len(ExpectedTurns(pathNodes, 2))
        IN  /\ n >= 2
            /\ steps[1].direction = "start"
            /\ steps[n].direction = "arrive"
            /\ \A j \in 2..(n - 1) : steps[j].direction \notin {"start", "arrive"}
            /\ n = IF turns = 0 THEN 3 ELSE 2 + turns

\* Four distinct nodes with a turn at each interior node: four steps.
C11_Witness ==
    /\ DirDone /\ Len(pathNodes) = 4
    /\ \A k \in 1..3 : pathNodes[k] # pathNodes[k + 1]
    /\ Len(ExpectedTurns(pathNodes, 2)) = 2
    /\ Len(steps) = 4
    /\ steps[2].direction = "left"
    /\ steps[3].direction = "right"

\* C12: a path that resolves to fewer than 2 nodes (the empty path, a single
\* node, ids that are in no node table) returns the empty step list.
C12_DegeneratePathEmpty ==
    (DirDone /\ Len(pathNodes) < 2) => steps = <<>>

\* Three ids of which one is known: the path resolves to a single node.
C12_Witness ==
    /\ DirDone
    /\ Len(pathNodeIds) = 3
    /\ UnknownId \in {pathNodeIds[k] : k \in 1..3}
    /\ Len(pathNodes) = 1
    /\ steps = <<>>

\* C13: the segment distances handed to the engine for a route have exactly
\* routePoints.length - 1 entries, entry i being the length in meters of the
\* segment from route point i to route point i + 1.
C13_SegmentDistancesPerSegment ==
    (DirDone /\ Len(pathNodeIds) >= 2 /\ Len(pathNodes) = Len(pathNodeIds)) =>
        LET rp == ViewRoutePoints(pathNodeIds)
            sd == ViewSegmentDistances(steps)
        IN  /\ Len(sd) = Len(rp) - 1
            /\ \A i \in 1..Len(sd) : sd[i] = DistanceMeters(rp[i], rp[i + 1], scaleFactor)

(***************************************************************************)
(*                     Position-fusion engine: claims                      *)
(***************************************************************************)

\* C5: every detected step, simulation tick and confidence-timer tick leaves the
\* confidence no higher than it was and no lower than the floor MIN_CONFIDENCE
\* (0.15): over a sequence of such events alone the confidence never increases
\* and never drops below the floor.
C5_ConfidenceDecays ==
    [][(Motion \/ SimulationTick \/ ConfidenceTick) =>
          /\ confidence' <= confidence
          /\ confidence' >= 150000
          /\ confidenceRef' = confidence']_vars

\* The floor at work: the confidence timer has charged a long wait, and a step was
\* detected with the confidence at the floor.
C5_Witness ==
    /\ confidence = 150000
    /\ stepCount > 0
    /\ source = "accelerometer"
    /\ lastConfidenceTickRef >= EpochStart + IdleDelay
    /\ lastStepTimeRef >= lastConfidenceTickRef

\* The sum of the first i segment distances.
RECURSIVE SumFirst(_, _)
SumFirst(distances, i) == IF i = 0 THEN 0 ELSE distances[i] + SumFirst(distances, i - 1)

\* C6: from any state, recalibrateToNode(i) with 0 <= i < routePoints.length sets
\* distanceWalked to the sum of the first i segment distances, the confidence to
\* 0.95 and isOffRoute to false.
C6_RecalibrateSnaps ==
    [][\A i \in 0..(Len(routePoints) - 1) :
          RecalibrateAt(i) =>
              /\ distanceWalked' = SumFirst(segmentDistances, i)
              /\ confidence' = 950000
              /\ isOffRoute' = FALSE]_vars

\* recalibrateToNode(2) has acted on the three-point route after five detected
\* steps (and no simulation) had carried the distance 3.64 m along the 0.6 m route,
\* past the tolerance.
C6_Witness ==
    /\ routePoints = RouteB.points
    /\ source = "manual"
    /\ confidence = 950000
    /\ disturbances = 1
    /\ stepCount >= 5
    /\ simIntervals = {}
    /\ distanceWalked = 600
    /\ ~isOffRoute

\* C7: while the distance along the route stays past the end of the route by more
\* than the tolerance, onRouteDeviation has been invoked once, not once per sample.
C7_DeviationCallbackOnce == deviationCalls <= 1

\* C8: whenever the route changes, the reset leaves segment 0, distance 0, step
\* count 0, confidence 1.0, source accelerometer, isOffRoute false, the position
\* at the first route point and all three buffers empty.
C8_RouteChangeResets ==
    [][routePoints' # routePoints =>
          /\ currentSegment' = 0
          /\ currentSegmentRef' = 0
          /\ distanceAlongRouteRef' = 0
          /\ distanceWalked' = 0
          /\ stepCount' = 0
          /\ confidence' = 1000000
          /\ source' = "accelerometer"
          /\ isOffRoute' = FALSE
          /\ (Len(routePoints') > 0 => position' = AsPosition(routePoints'[1]))
          /\ accelBufferRef' = <<>>
          /\ compassBufferRef' = <<>>
          /\ stepTimesRef' = <<>>]_vars


\* C14: while the route has fewer than 2 points, every motion sample (detected
\* steps included), simulation tick and beacon fix leaves the position and the
\* current segment unchanged, throws nothing, and invokes neither the
\* segment-advance nor the route-deviation callback.
C14_ShortRouteNoOp ==
    [][(Len(routePoints) < 2 /\ (Motion \/ SimulationTick \/ BeaconFix)) =>
          /\ position' = position
          /\ currentSegment' = currentSegment
          /\ currentSegmentRef' = currentSegmentRef
          /\ threw' = FALSE
          /\ advanceCalls' = <<>>
          /\ deviationCalls' <= deviationCalls]_vars

\* A simulation interval started on the three-point route has ticked after the
\* route became the single point (5, 5): the distance advanced, the position did
\* not.
C14_Witness ==
    /\ routePoints = RouteC.points
    /\ \E iv \in simIntervals : iv.routePoints = RouteB.points
    /\ source = "simulation"
    /\ distanceWalked = SimStep
    /\ position = AsPosition(Pt(5, 5))
    /\ currentSegment = 0
    /\ ~threw


\* C15: while tracking is on, simulation starts if and only if no valid motion
\* sample has arrived during the 3-second grace delay: once the delay has run
\* out with no sample since tracking was switched on a simulation interval is
\* live, an interval is only ever started with no such sample, and each of its
\* ticks adds 0.3 m to the distance along the route with source simulation.
C15_SimulationIffNoSample ==
    /\ [](( /\ active
            /\ ~sampleSinceActive
            /\ graceStart # NoTimer
            /\ now >= graceStart + SimGrace
            /\ ~TimerDue ) => simIntervals # {})
    /\ [][SimulationStart => ~sampleSinceActive]_vars
    /\ [][SimulationTick =>
             /\ distanceAlongRouteRef' = distanceAlongRouteRef + 300
             /\ distanceWalked' = distanceAlongRouteRef'
             /\ source' = "simulation"]_vars


\* C16: after applyBeaconFix(pos, accuracy) the confidence is a function of the
\* accuracy alone that never increases with it, lies in [0.3, 0.98], and is 0.95
\* at 2 m and 0.5 at 10 m.
C16_BeaconConfidenceAnchors ==
    [][\A fix \in BeaconFixes :
          BeaconFixWith(fix) =>
              /\ confidence' = confidenceRef'
              /\ confidence' >= 300000
              /\ confidence' <= 980000
              /\ \A other \in BeaconFixes :
                     other.accuracy <= fix.accuracy =>
                         BeaconConfidence(other.accuracy) >= confidence'
              /\ (fix.accuracy = 2000 => confidence' = 950000)
              /\ (fix.accuracy = 10000 => confidence' = 500000)]_vars


\* Heading h (millidegrees) is within tol of north, on the circle.
NearNorth(h, tol) == h <= tol \/ h >= 2 * HalfTurn - tol

Readings(buffer) == {buffer[k] : k \in 1..Len(buffer)}

\* C17: the smoothed heading is the circular mean of the buffered readings: a
\* buffer of readings of 350 and 10 degrees, both present, gives a heading within
\* 10 degrees of north and not near 180; a buffer of equal readings gives that
\* reading; and the heading is always in [0, 360).
C17_CircularMean ==
    compassBufferRef # <<>> =>
        /\ heading >= 0
        /\ heading < 2 * HalfTurn
        /\ (Readings(compassBufferRef) = {350, 10} => NearNorth(heading, 10000))
        /\ \A r \in CompassSamples :
               Readings(compassBufferRef) = {r} => Abs(heading - 1000 * r) <= 100


\* The labels the engine's headings admit for the turn p -> c -> n: right when
\* the heading of c -> n is clockwise from that of p -> c (0 = up = -y, clockwise
\* positive), left when it is counter-clockwise, either for a reversal.
HeadingLabels(p, c, n) ==
    LET d == (segmentHeading(c, n) - segmentHeading(p, c)) % (2 * HalfTurn)
    IN  IF Abs(d - HalfTurn) <= 100 THEN {"left", "right"}
        ELSE IF d < HalfTurn THEN {"right"} ELSE {"left"}

\* The label sets of the interior nodes k..Len-1 (1-based) that exceed the threshold.
RECURSIVE HeadingTurns(_, _)
HeadingTurns(ns, k) ==
    IF k > Len(ns) - 1 THEN <<>>
    ELSE IF TurnExceeds(ns[k - 1], ns[k], ns[k + 1])
         THEN <<HeadingLabels(ns[k - 1], ns[k], ns[k + 1])>> \o HeadingTurns(ns, k + 1)
         ELSE HeadingTurns(ns, k + 1)

\* C18: every emitted turn is tagged right exactly when the engine's heading of
\* the outgoing segment is clockwise from that of the incoming segment, and left
\* exactly when it is counter-clockwise (paths without repeated consecutive nodes).
C18_TurnLabelMatchesHeading ==
    (/\ DirDone
     /\ Len(pathNodes) >= 2
     /\ \A k \in 1..(Len(pathNodes) - 1) : pathNodes[k] # pathNodes[k + 1]) =>
        LET turns == SelectSeq(steps, IsTurnStep)
            expected == HeadingTurns(pathNodes, 2)
        IN  /\ Len(turns) = Len(expected)
            /\ \A j \in 1..Len(turns) : turns[j].direction \in expected[j]


\* The point of the route polyline at distance d along it (thousandths of a map
\* unit), for a cumulative table with one entry per route point.
PolylinePoint(rp, cum, d) ==
    LET i == CHOOSE j \in 1..(Len(rp) - 1) : cum[j] <= d /\ d <= cum[j + 1]
        segLen == cum[i + 1] - cum[i]
    IN  IF segLen = 0 THEN AsPosition(rp[i])
        ELSE [x |-> 1000 * rp[i].x + ((rp[i + 1].x - rp[i].x) * 1000 * (d - cum[i])) \div segLen,
              y |-> 1000 * rp[i].y + ((rp[i + 1].y - rp[i].y) * 1000 * (d - cum[i])) \div segLen]

SqDist(a, b) == (a.x - b.x) * (a.x - b.x) + (a.y - b.y) * (a.y - b.y)

\* The distances along the route (whole millimeters) whose polyline point is
\* closest to pos.
\* The least of far[lo], ..., far[hi], by halves.
RECURSIVE LeastIn(_, _, _)
LeastIn(far, lo, hi) ==
    IF lo = hi THEN far[lo]
    ELSE LET mid == (lo + hi) \div 2
             a == LeastIn(far, lo, mid)
             b == LeastIn(far, mid + 1, hi)
         IN  IF a < b THEN a ELSE b

ClosestDistances(rp, cum, pos) ==
    LET total == cum[Len(cum)]
        far == [d \in 0..total |-> SqDist(PolylinePoint(rp, cum, d), AsPosition(pos))]
        least == LeastIn(far, 0, total)
    IN  {d \in 0..total : far[d] = least}

\* The routes of at least 2 points, the positions of the fixes, and the closest
\* distances of each position on each route.
ProperRoutes == {r \in Routes : Len(r.points) >= 2}

BeaconPositions == {fix.pos : fix \in BeaconFixes}

ClosestTable ==
    [r \in ProperRoutes |->
        [pos \in BeaconPositions |-> ClosestDistances(r.points, Cumulative(r.distances), pos)]]

\* C19: on a route of at least 2 points applyBeaconFix(pos, accuracy) sets the
\* distance along the route to the cumulative distance of the polyline point
\* closest to pos (to the millimeter), which lies in [0, total route distance],
\* and leaves isOffRoute false and the source beacon.
C19_BeaconFixProjects ==
    [][\A fix \in BeaconFixes :
          (Len(routePoints) >= 2 /\ BeaconFixWith(fix)) =>
              LET cum == cumulativeDistances
                  d == distanceAlongRouteRef'
                  route == CHOOSE r \in ProperRoutes :
                               r.points = routePoints /\ r.distances = segmentDistances
              IN  /\ d >= 0
                  /\ d <= cum[Len(cum)]
                  /\ distanceWalked' = d
                  /\ \E m \in ClosestTable[route][fix.pos] : Abs(d - m) <= 1
                  /\ isOffRoute' = FALSE
                  /\ source' = "beacon"]_vars

\* A fix at (4, 2) beside the second segment of the three-point route, taken with
\* the walker on the first segment: 0.5 m along the route, at (3, 2).
C19_Witness ==
    /\ routePoints = RouteB.points
    /\ source = "beacon"
    /\ distanceWalked = 500
    /\ distanceAlongRouteRef = 500
    /\ position = [x |-> 3000, y |-> 2000]
    /\ currentSegment = 1
    /\ advanceCalls = <<1>>
    /\ ~isOffRoute


\* The point at distance c along segment i (0-based) of the route, by linear
\* interpolation between route points i and i + 1 (thousandths of a map unit).
Interpolated(rp, cum, i, c) ==
    LET p1 == At(rp, i)
        p2 == At(rp, i + 1)
        segLen == At(cum, i + 1) - At(cum, i)
    IN  [x |-> 1000 * p1.x + ((p2.x - p1.x) * 1000 * (c - At(cum, i))) \div segLen,
         y |-> 1000 * p1.y + ((p2.y - p1.y) * 1000 * (c - At(cum, i))) \div segLen]

\* A detected step: a motion sample that raised the step count.
DetectedStep == Motion /\ stepCount' = stepCount + 1

\* C20: after every detected step, simulation tick or beacon fix on a route of
\* at least 2 points with positive segment distances, the current segment i
\* satisfies cum[i] <= min(d, total) <= cum[i + 1] for the distance along the
\* route d, and the position is the linear interpolation between route points i
\* and i + 1 at that distance; for d >= total it is the last route point on the
\* last segment.
C20_PositionInterpolates ==
    [][(/\ Len(routePoints) >= 2
        /\ Len(segmentDistances) = Len(routePoints) - 1
        /\ \A k \in 1..Len(segmentDistances) : segmentDistances[k] > 0
        /\ (DetectedStep \/ SimulationTick \/ BeaconFix)) =>
          LET cum == cumulativeDistances
              total == cum[Len(cum)]
              d == distanceAlongRouteRef'
              c == Min2(d, total)
              i == currentSegment'
          IN  /\ i >= 0
              /\ i <= Len(routePoints) - 2
              /\ currentSegmentRef' = i
              /\ At(cum, i) <= c
              /\ c <= At(cum, i + 1)
              /\ position' = Interpolated(routePoints, cum, i, c)
              /\ (d >= total =>
                     /\ i = Len(routePoints) - 2
                     /\ position' = AsPosition(routePoints[Len(routePoints)]))]_vars

(***************************************************************************)
(*  Route heading, step detection and step length                          *)
(***************************************************************************)

\* C21: on a route with at least 2 points the route heading is always the
\* bearing of the current segment, from its start point to its end point,
\* whatever operation last changed the segment index.
C21_RouteHeadingFollowsSegment ==
    Len(routePoints) >= 2 =>
        /\ Has(routePoints, currentSegment)
        /\ Has(routePoints, currentSegment + 1)
        /\ routeHeading = segmentHeading(At(routePoints, currentSegment),
                                         At(routePoints, currentSegment + 1))

\* The smoothed deviation after the samples of buf: their average, 0 before the
\* first sample (in 1/1200 m/s^2).
Smoothed(buf) == IF buf = <<>> THEN 0 ELSE (Sum(buf) * AccelScale) \div Len(buf)

\* C22: a motion sample counts a step only on a rising edge of the smoothed
\* deviation (at most 0.8 after the sample before, above 0.8 after this one) and
\* only more than 250 ms after the step detected before, whose time only a
\* detected step changes; a sample that finds the deviation above the threshold
\* counts none; a detected step raises stepCount by exactly 1 and the distance
\* along the route by exactly the effective step length (the configured one, or
\* the adapted one that is reported once 3 intervals are recorded); any other
\* sample leaves both alone.
C22_StepDetection ==
    /\ [][Motion =>
            LET before == Smoothed(accelBufferRef)
                after == Smoothed(accelBufferRef')
                effective == IF Len(stepTimesRef') >= 3 THEN adaptiveStepLength'
                             ELSE stepLength
            IN  /\ stepCount' \in {stepCount, stepCount + 1}
                /\ (stepCount' = stepCount + 1 =>
                       /\ before <= stepThreshold
                       /\ after > stepThreshold
                       /\ now - lastStepTimeRef > StepDebounce
                       /\ lastStepTimeRef' = now
                       /\ distanceAlongRouteRef' = distanceAlongRouteRef + effective
                       /\ distanceWalked' = distanceAlongRouteRef')
                /\ (stepCount' = stepCount =>
                       /\ distanceAlongRouteRef' = distanceAlongRouteRef
                       /\ lastStepTimeRef' = lastStepTimeRef)
                /\ (before > stepThreshold => stepCount' = stepCount)]_vars
    /\ [][lastStepTimeRef' # lastStepTimeRef => Motion]_vars

\* Three steps detected, the last one just now and 300 ms after the second.
C22_Witness ==
    /\ stepCount = 3
    /\ lastStepTimeRef = now
    /\ Len(stepTimesRef) = 3
    /\ stepTimesRef[3] = 300
    /\ distanceAlongRouteRef = 2 * stepLength + adaptiveStepLength

\* An entry of stepTimes that is the time between two detected steps: the entry
\* of the first step ever is measured from lastStepTimeRef = 0 and reaches back
\* before the hook was created.
IsInterval(t) == t < EpochStart

\* The recorded times between consecutive detected steps.
InterStepIntervals(times) == SelectSeq(times, IsInterval)

\* base * clamp(average interval / 500 ms, 0.7, 1.2), in whole millimeters, for
\* intervals of the given sum and number.
ClampedStride(total, n) ==
    Max2((7 * stepLength) \div 10,
         Min2((12 * stepLength) \div 10, (stepLength * total) \div (NormalInterval * n)))

\* C23: the distance added by a detected step is the base step length while
\* fewer than 3 inter-step intervals are recorded, and else the base step length
\* times clamp(average / 500 ms, 0.7, 1.2) for the average of the recorded
\* inter-step intervals, at most the 10 most recent ones; it lies between 0.7 and
\* 1.2 times the base step length.
C23_AdaptiveStepLength ==
    [][DetectedStep =>
          LET intervals == InterStepIntervals(stepTimesRef')
              added == distanceAlongRouteRef' - distanceAlongRouteRef
          IN  /\ Len(intervals) <= StepTimesSize
              /\ 10 * added >= 7 * stepLength
              /\ 10 * added <= 12 * stepLength
              /\ added = IF Len(intervals) < 3 THEN stepLength
                         ELSE ClampedStride(Sum(intervals), Len(intervals))]_vars

(***************************************************************************)
(*  Route changes, sources and the simulation                              *)
(***************************************************************************)

\* C24: after a route change no timer bound to the route before changes the
\* state: a simulation interval that was created under other route points than
\* the current ones leaves the distance along the route, the step count, the
\* confidence and the position alone.
C24_NoStaleRouteEvent ==
    [][\A iv \in simIntervals :
          (iv.routePoints # routePoints /\ SimulationTickOf(iv)) =>
              /\ distanceAlongRouteRef' = distanceAlongRouteRef
              /\ distanceWalked' = distanceWalked
              /\ stepCount' = stepCount
              /\ confidenceRef' = confidenceRef
              /\ confidence' = confidence
              /\ position' = position]_vars

\* C25: on a route with at least 2 points the source tag names the operation
\* that set the position last (accelerometer: a detected step or a route reset;
\* simulation: a simulation tick; manual: recalibrateToNode or
\* setManualPosition; beacon: applyBeaconFix), and ticks of the confidence timer
\* and orientation samples leave the source alone.
C25_SourceNamesLastSetter ==
    /\ [](Len(routePoints) >= 2 => source = positionSetter)
    /\ [][(ConfidenceTick \/ Orientation) => source' = source]_vars

\* C26: a simulation tick happens only while tracking is on and no motion
\* sample has ever arrived; at most one simulation interval is live; none is
\* live while tracking is off or once a motion sample has arrived.
C26_SimulationTimerCancelled ==
    /\ [](Cardinality(simIntervals) <= 1)
    /\ [](~active \/ sensorsAvailable => simIntervals = {})
    /\ [][SimulationTick => active /\ ~sensorsAvailable]_vars

\* C27: the current segment index is always a segment of the route, or 0 on a
\* route with fewer than 2 points: 0 <= currentSegment <= max(0, length - 2).
C27_SegmentIndexInRange ==
    /\ currentSegment >= 0
    /\ currentSegment <= Max2(0, Len(routePoints) - 2)

(***************************************************************************)
(*  Dead reckoning, confidence decay and termination                       *)
(***************************************************************************)

\* C28: while nothing but detected steps and simulation ticks moves the
\* position, on a route with non-negative segment distances: every step and every
\* tick raises the distance along the route; the current segment index never
\* decreases; a processed sample or tick invokes onSegmentAdvance at most once,
\* only when it changed the segment index, and with the new index, which is
\* above the one before.
C28_MonotoneAdvance ==
    /\ [][(DetectedStep \/ SimulationTick) =>
              distanceAlongRouteRef' > distanceAlongRouteRef]_vars
    /\ [][currentSegment' >= currentSegment]_vars
    /\ [][(Motion \/ SimulationTick) =>
              /\ Len(advanceCalls') <= 1
              /\ (advanceCalls' # <<>> =>
                     /\ currentSegment' > currentSegment
                     /\ advanceCalls' = <<currentSegment'>>)]_vars
    /\ [][advanceCalls' # <<>> => (Motion \/ SimulationTick)]_vars

\* A detected step has carried the position over the segment of length 0, from
\* segment 0 to segment 2, and onSegmentAdvance was invoked with 2.
C28_Witness ==
    /\ routePoints = RouteE.points
    /\ stepCount = 2
    /\ source = "accelerometer"
    /\ currentSegment = 2
    /\ advanceCalls = <<2>>
    /\ distanceAlongRouteRef = 2 * stepLength

\* The time at which the confidence interval was armed: when tracking was
\* switched on, or at its last tick, whichever came later.
TrackedSince == confidenceTimer - ConfidencePeriod

\* C29: a tick of the confidence timer lowers the confidence by 0.002 per second
\* elapsed since the later of the tick before and the moment tracking was
\* switched on (down to the floor), so that time without tracking is not charged.
C29_DecayChargesActiveTime ==
    [][ConfidenceTick =>
          /\ confidenceRef' = Max2(MIN_CONFIDENCE,
                                   confidenceRef
                                     - CONFIDENCE_DECAY_PER_SECOND * (now - TrackedSince))
          /\ confidence' = confidenceRef']_vars

\* C30: dijkstra terminates for any start id and end id, node ids or not, and
\* for an end id that is not a node id the call returns null: it leaves through
\* the null return after the main loop and never starts to reconstruct a path.
C30_TerminatesOnAnyIds ==
    /\ [](endId \notin NodeIds => rpc # "rebuild")
    /\ [](RouterDone /\ endId \notin NodeIds => result.kind = "null")
    /\ <>RouterDone

=============================================================================
